---- MODULE Spec2Model ----
(***************************************************************************)
(* Model of find_top_agents.py: the per-query fetch-and-classify loop      *)
(* (fetch_agents_for_query), the aggregation (aggregate_entries) and the   *)
(* driver (main).  Strings are sequences of one-character strings, so that *)
(* str.lower, str.strip and the substring tests are computed, not assumed. *)
(***************************************************************************)
EXTENDS Integers, Sequences, FiniteSets, TLC

(* ---------------- bounds of the model ---------------- *)
\* largest value of --results (args.results) explored by Spec
MaxResults == 2
\* number of query phrases driven by main in Spec (the source builds 8; the
\* loop body is the same for each of them)
NumQueries == 2
\* longest list of per-query maps handed to aggregate_entries in SpecAgg
MaxQueries == 2
\* largest stored rank in the maps handed to aggregate_entries in SpecAgg
MaxRank == 2
\* longest search-result sequence whose upserts are permuted in SpecMerge
MaxUpserts == 3
\* how many times aggregate_entries is run on one input in SpecAgg
MaxRuns == 2

(* ---------------- program constants ---------------- *)
BANNED_KEYWORDS ==
  { <<"z","i","l","l","o","w">>,
    <<"t","r","u","l","i","a">>,
    <<"r","e","d","f","i","n">>,
    <<"r","e","a","l","t","o","r",".","c","o","m">>,
    <<"u","s","n","e","w","s">>,
    <<"c","i","t","y","-","d","a","t","a">>,
    <<"y","e","l","p">>,
    <<"f","a","s","t","e","x","p","e","r","t">>,
    <<"f","a","c","e","b","o","o","k">>,
    <<"i","n","s","t","a","g","r","a","m">>,
    <<"l","i","n","k","e","d","i","n">>,
    <<"t","w","i","t","t","e","r">>,
    <<"x",".","c","o","m">>,
    <<"r","e","d","d","i","t">>,
    <<"f","i","v","e","s","t","a","r","p","r","o","f","e","s","s","i","o","n","a","l">>,
    <<"r","e","a","l","t","r","e","n","d","s">>,
    <<"h","o","u","z","e","o">>,
    <<"e","f","f","e","c","t","i","v","e","a","g","e","n","t","s">>,
    <<"n","e","x","t","d","o","o","r">>,
    <<"e","x","p","e","r","t","i","s","e">>,
    <<"h","o","m","e","l","i","g","h","t">>,
    <<"h","o","m","e","g","u","i","d","e">>,
    <<"n","a","r",".","r","e","a","l","t","o","r">>,
    <<"y","o","u","t","u","b","e">>,
    <<"t","h","u","m","b","t","a","c","k">>,
    <<"t","o","p","a","g","e","n","t","m","a","g","a","z","i","n","e">>,
    <<"y","e","l","l","o","w","p","a","g","e","s">>,
    <<"t","r","i","p","l","e">>,
    <<"a","n","g","i">>,
    <<"l","i","s","t","w","i","t","h","c","l","e","v","e","r">>,
    <<"t","i","k","t","o","k">>,
    <<"m","o","v","o","t","o">>,
    <<".","o","r","g">>,
    <<"e","x","p","e","r","i","e","n","c","e",".","c","o","m">>,
    <<"b","a","n","k","r","a","t","e">>,
    <<"e","x","p","e","r","t","i","s","e",".","c","o","m">>,
    <<"g","l","a","s","s","d","o","o","r">>,
    <<"b","i","g","g","e","r","p","o","c","k","e","t","s">>,
    <<"a","g","e","n","t","p","r","o","t","o">>,
    <<"l","a","n","d","s","e","a","r","c","h">>,
    <<"c","o","l","d","w","e","l","l","b","a","n","k","e","r">>,
    <<"r","e","m","a","x">>,
    <<"s","o","t","h","e","b","y","s">>,
    <<"b","h","h","s">>,
    <<"k","e","l","l","e","r","w","i","l","l","i","a","m","s">>,
    <<"k","w",".","c","o","m">>,
    <<"c","e","n","t","u","r","y","2","1">>,
    <<"c","2","1">>,
    <<"b","h","g","r","e">>,
    <<"e","r","a",".","c","o","m">>,
    <<"e","l","l","i","m","a","n">>,
    <<"c","o","m","p","a","s","s">>,
    <<"e","x","p","r","e","a","l","t","y">>,
    <<"c","o","r","c","o","r","a","n">>,
    <<"w","e","i","c","h","e","r","t">>,
    <<"h","o","w","a","r","d","h","a","n","n","a">>,
    <<"l","o","n","g","a","n","d","f","o","s","t","e","r">>,
    <<"r","e","a","l","t","y","e","x","e","c","u","t","i","v","e","s">>,
    <<"r","e","a","l","t","y","o","n","e","g","r","o","u","p">>,
    <<"h","o","m","e","s","m","a","r","t">>,
    <<"e","x","i","t","r","e","a","l","t","y">>,
    <<"r","a","t","e","m","y","a","g","e","n","t">>,
    <<"s","u","l","e","k","h","a">>,
    <<"b","i","z","j","o","u","r","n","a","l","s">>,
    <<"/","n","e","w","s","/">>,
    <<"/","m","o","n","e","y","/">>,
    <<"/","b","u","s","i","n","e","s","s","/">>,
    <<"s","e","o","l","i","u","m">>,
    <<"a","g","e","n","t","p","r","o","n","t","o">>,
    <<"u","p","n","e","s","t">>,
    <<"h","o","u","s","e","c","a","s","h","i","n">> }
AGENT_INDICATORS ==
  << <<"r","e","a","l","t","o","r">>,
     <<"r","e","a","l"," ","e","s","t","a","t","e"," ","a","g","e","n","t">>,
     <<"t","e","a","m">>,
     <<"r","e","a","l","t","y">>,
     <<"b","r","o","k","e","r">> >>
GOOGLE_MAPS == <<"g","o","o","g","l","e",".","c","o","m","/","m","a","p","s">>

(* ---------------- strings ---------------- *)
UpperAlpha == <<"A","B","C","D","E","F","G","H","I","J","K","L","M","N","O","P","Q","R","S","T","U","V","W","X","Y","Z">>
LowerAlpha == <<"a","b","c","d","e","f","g","h","i","j","k","l","m","n","o","p","q","r","s","t","u","v","w","x","y","z">>

\* the absent value (Python None) of an Optional[str]
None == <<"<None>">>

LowerChar(c) ==
  IF \E i \in 1..Len(UpperAlpha) : UpperAlpha[i] = c
  THEN LowerAlpha[CHOOSE i \in 1..Len(UpperAlpha) : UpperAlpha[i] = c]
  ELSE c

\* str.lower()
Lower(s) == [i \in 1..Len(s) |-> LowerChar(s[i])]

\* the Python test `sub in s` on strings
Contains(s, sub) ==
  \E i \in 0..(Len(s) - Len(sub)) : SubSeq(s, i + 1, i + Len(sub)) = sub

\* str.strip(): drop the white space at both ends
Strip(s) ==
  LET ink == {i \in 1..Len(s) : s[i] # " "}
  IN  IF ink = {} THEN <<>>
      ELSE SubSeq(s, CHOOSE i \in ink : \A j \in ink : i <= j,
                     CHOOSE i \in ink : \A j \in ink : i >= j)

(* ---------------- the explored web ---------------- *)
UrlJane == <<"j","t",".","c","o","m">>
UrlJane2 == <<"j","2",".","c","o","m">>
UrlYelp == <<"Y","e","l","p",".","c","o","m","/","b","o","b">>
UrlBob == <<"b","o","b",".","c","o","m">>
UrlHomes == <<"h",".","c","o","m">>
UrlBlank == <<"n",".","c","o","m">>
TJane == <<"J","a","n","e"," ","T","e","a","m">>
TJane2 == <<" ","J","A","N","E"," ","T","E","A","M"," ">>
TBob == <<"B","o","b"," ","R","e","a","l","t","y">>
THomes == <<"H","o","m","e","s">>
TYelp == <<"T","o","p"," ","R","e","a","l","t","o","r">>
TBlank == <<" "," ">>

Urls == {UrlJane, UrlJane2, UrlYelp, UrlBob, UrlHomes, UrlBlank}

\* the document served at each URL: its og:title content, its
\* <meta name="title"> content and its <title> string (None when missing)
Web(url) ==
  CASE url = UrlJane  -> [og |-> TJane,  meta |-> TBob, title |-> THomes]
    [] url = UrlJane2 -> [og |-> None,   meta |-> None, title |-> TJane2]
    [] url = UrlYelp  -> [og |-> TYelp,  meta |-> None, title |-> None]
    [] url = UrlBob   -> [og |-> <<>>,   meta |-> TBob, title |-> None]
    [] url = UrlHomes -> [og |-> None,   meta |-> None, title |-> THomes]
    [] url = UrlBlank -> [og |-> TBlank, meta |-> None, title |-> TJane]

\* every normalized title a page of the web can yield
KeyUniverse == {Lower(TJane), Lower(TBob)}

(* ---------------- pure functions of the program ---------------- *)
is_banned_url(url) ==
  LET u == Lower(url)
  IN  IF Contains(u, GOOGLE_MAPS) THEN TRUE
      ELSE \E keyword \in BANNED_KEYWORDS : Contains(u, keyword)

extract_meta_title(html) ==
  IF html.og # None /\ html.og # <<>> THEN Strip(html.og)
  ELSE IF html.meta # None /\ html.meta # <<>> THEN Strip(html.meta)
  ELSE IF html.title # None /\ html.title # <<>> THEN Strip(html.title)
  ELSE None

looks_like_agent(title) ==
  LET lower == Lower(title)
  IN  \E i \in 1..Len(AGENT_INDICATORS) : Contains(lower, AGENT_INDICATORS[i])

\* the dataclass AgentEntry
AgentEntry(name, url, rank) == [name |-> name, url |-> url, rank |-> rank]

Min2(a, b) == IF a <= b THEN a ELSE b

\* Upsert as it would be with the title itself, not lower-cased, as the key
UpsertRawKey(ents, title, url, rank) ==
  LET key == title
  IN  IF key \in DOMAIN ents
      THEN [ents EXCEPT ![key].rank = Min2(ents[key].rank, rank)]
      ELSE [k \in DOMAIN ents \cup {key} |->
              IF k = key THEN AgentEntry(title, url, rank) ELSE ents[k]]

\* Upsert as it would be if a recurring title overwrote the stored rank
UpsertLastRank(ents, title, url, rank) ==
  LET key == Lower(title)
  IN  IF key \in DOMAIN ents
      THEN [ents EXCEPT ![key].rank = rank]
      ELSE [k \in DOMAIN ents \cup {key} |->
              IF k = key THEN AgentEntry(title, url, rank) ELSE ents[k]]

\* the upsert at the end of the loop body of fetch_agents_for_query
Upsert(ents, title, url, rank) ==
  LET key == Lower(title)
  IN  IF key \in DOMAIN ents
      THEN [ents EXCEPT ![key].rank = Min2(ents[key].rank, rank)]
      ELSE [k \in DOMAIN ents \cup {key} |->
              IF k = key THEN AgentEntry(title, url, rank) ELSE ents[k]]

\* is_banned_url, extract_meta_title and looks_like_agent tabulated over the
\* explored web (the functions are pure, each URL is classified once)
BannedUrls == {u \in Urls : is_banned_url(u)}

PageTitle == [u \in Urls |-> extract_meta_title(Web(u))]

AgentUrls ==
  {u \in Urls : /\ PageTitle[u] # None
                /\ PageTitle[u] # <<>>
                /\ looks_like_agent(PageTitle[u])}

EmptyMap == [k \in {} |-> 0]

(* ---------------- aggregate_entries ---------------- *)
RECURSIVE SumSeq(_)
SumSeq(s) == IF s = <<>> THEN 0 ELSE Head(s) + SumSeq(Tail(s))

\* the built-ins min and max on a non-empty list of integers
MinSeq(s) == CHOOSE x \in {s[i] : i \in 1..Len(s)} : \A j \in 1..Len(s) : x <= s[j]

MaxSeq(s) == CHOOSE x \in {s[i] : i \in 1..Len(s)} : \A j \in 1..Len(s) : x >= s[j]

\* set().union(*query_results)
AllKeys(qrs) == UNION {DOMAIN qrs[q] : q \in 1..Len(qrs)}

\* The order in which `for key in all_keys` visits a set of strings.  It
\* follows the string hashes, which CPython randomizes per process: seed is
\* the enumeration of the key universe that the running process induces.
SetIterOrder(S, seed) ==
  LET InS(k) == k \in S
  IN  SelectSeq(seed, InS)

\* RankVector as it would be if a missing name contributed nothing
RankVectorNoPenalty(qrs, penalty, key) ==
  [q \in 1..Len(qrs) |->
     IF key \in DOMAIN qrs[q] THEN qrs[q][key].rank ELSE 0]

\* the list `ranks` built for one key
RankVector(qrs, penalty, key) ==
  [q \in 1..Len(qrs) |->
     IF key \in DOMAIN qrs[q] THEN qrs[q][key].rank ELSE penalty]

\* appearances: the number of queries holding the key
Appearances(qrs, key) == Cardinality({q \in 1..Len(qrs) : key \in DOMAIN qrs[q]})

\* BestEntry as it would be if the first query holding the key were taken
BestEntryFirstSeen(qrs, key) ==
  LET Q == {q \in 1..Len(qrs) : key \in DOMAIN qrs[q]}
      b == CHOOSE q \in Q : \A p \in Q : q <= p
  IN  qrs[b][key]

\* min((qr[key] for qr in query_results if key in qr), key=lambda e: e.rank):
\* the first entry, in query order, of minimal rank
BestEntry(qrs, key) ==
  LET Q == {q \in 1..Len(qrs) : key \in DOMAIN qrs[q]}
      b == CHOOSE q \in Q : \A p \in Q :
             \/ qrs[q][key].rank < qrs[p][key].rank
             \/ (qrs[q][key].rank = qrs[p][key].rank /\ q <= p)
  IN  qrs[b][key]

\* AggregateKey as it would be if best and worst were taken over the ranks
\* of the appearances only
AggregateKeyStoredOnly(qrs, penalty, key) ==
  LET ranks == RankVector(qrs, penalty, key)
      stored == {qrs[q][key].rank : q \in {p \in 1..Len(qrs) : key \in DOMAIN qrs[p]}}
      best_entry == BestEntry(qrs, key)
  IN  [name |-> best_entry.name,
       url |-> best_entry.url,
       total_score |-> SumSeq(ranks),
       best_rank |-> CHOOSE x \in stored : \A y \in stored : x <= y,
       worst_rank |-> CHOOSE x \in stored : \A y \in stored : x >= y,
       appearance_count |-> Appearances(qrs, key)]

\* the AggregatedEntry appended for one key
AggregateKey(qrs, penalty, key) ==
  LET ranks == RankVector(qrs, penalty, key)
      best_entry == BestEntry(qrs, key)
  IN  [name |-> best_entry.name,
       url |-> best_entry.url,
       total_score |-> SumSeq(ranks),
       best_rank |-> MinSeq(ranks),
       worst_rank |-> MaxSeq(ranks),
       appearance_count |-> Appearances(qrs, key)]

\* sorted(aggregated, key=lambda e: e.total_score): a stable sort, equal
\* scores keep the order they had in the list
RECURSIVE InsertByScore(_, _)
InsertByScore(e, s) ==
  IF s = <<>> THEN <<e>>
  ELSE IF s[Len(s)].total_score <= e.total_score THEN Append(s, e)
  ELSE Append(InsertByScore(e, SubSeq(s, 1, Len(s) - 1)), s[Len(s)])

\* SortedByScore as it would be without the sort
Unsorted(s) == s

RECURSIVE SortedByScore(_)
SortedByScore(s) ==
  IF s = <<>> THEN <<>>
  ELSE InsertByScore(s[Len(s)], SortedByScore(SubSeq(s, 1, Len(s) - 1)))

aggregate_entries(qrs, penalty, seed) ==
  LET order == SetIterOrder(AllKeys(qrs), seed)
  IN  SortedByScore([i \in 1..Len(order) |-> AggregateKey(qrs, penalty, order[i])])

\* PenaltyOf as it would be without the increment
PenaltyOfNoIncrement(nresults) == nresults

\* penalty = args.results + 1
PenaltyOf(nresults) == nresults + 1

\* what search(query, num_results=num) can yield: at most num URLs
SearchResults(num) ==
  UNION {[1..n -> Urls] : n \in 0..num}

\* the enumerations of the key universe a process can induce
HashSeeds ==
  {s \in [1..Cardinality(KeyUniverse) -> KeyUniverse] :
     \A i, j \in DOMAIN s : s[i] = s[j] => i = j}

(* ---------------- state ---------------- *)
VARIABLES
  pc,             \* control point of the run
  max_results,    \* args.results
  penalty,        \* the penalty handed to aggregate_entries
  qi,             \* index of the query being fetched
  results,        \* URLs returned by get_search_results for the query
  rank,           \* the loop variable of enumerate(..., start=1)
  entries,        \* the dict built by fetch_agents_for_query
  query_results,  \* the list of per-query dicts
  aggregated,     \* the list returned by the last aggregate_entries
  hashseed,       \* the key enumeration of the running process
  prev,           \* the list returned by the aggregate_entries before it
  runs,           \* how many times aggregate_entries has run
  failed,         \* history: positions of the query whose fetch failed
  searchFailed,   \* history: queries whose search raised
  pending         \* SpecMerge: positions whose upsert is still to apply

vars == <<pc, max_results, penalty, qi, results, rank, entries, query_results,
          aggregated, hashseed, prev, runs, failed, searchFailed, pending>>

(* ---------------- main and fetch_agents_for_query ---------------- *)
Init ==
  /\ pc = "start"
  /\ max_results = 0
  /\ penalty = 0
  /\ qi = 1
  /\ results = <<>>
  /\ rank = 1
  /\ entries = EmptyMap
  /\ query_results = <<>>
  /\ aggregated = <<>>
  /\ hashseed \in HashSeeds
  /\ prev = <<>>
  /\ runs = 0
  /\ failed = {}
  /\ searchFailed = {}
  /\ pending = {}

\* main: parse the arguments, penalty = args.results + 1
ParseArgs ==
  /\ pc = "start"
  /\ \E r \in 0..MaxResults :
       /\ max_results' = r
       /\ penalty' = PenaltyOf(r)
  /\ pc' = "search"
  /\ UNCHANGED <<qi, results, rank, entries, query_results, aggregated,
                 hashseed, prev, runs, failed, searchFailed, pending>>

\* fetch_agents_for_query entry: entries = {} and get_search_results
\* returns the list of URLs
SearchOk ==
  /\ pc = "search"
  /\ qi <= NumQueries
  /\ \E urls \in SearchResults(max_results) : results' = urls
  /\ rank' = 1
  /\ entries' = EmptyMap
  /\ failed' = {}
  /\ pc' = "loop"
  /\ UNCHANGED <<max_results, penalty, qi, query_results, aggregated,
                 hashseed, prev, runs, searchFailed, pending>>

\* get_search_results: search raises, the error is logged, [] is returned
SearchFails ==
  /\ pc = "search"
  /\ qi <= NumQueries
  /\ results' = <<>>
  /\ rank' = 1
  /\ entries' = EmptyMap
  /\ failed' = {}
  /\ searchFailed' = searchFailed \cup {qi}
  /\ pc' = "loop"
  /\ UNCHANGED <<max_results, penalty, qi, query_results, aggregated,
                 hashseed, prev, runs, pending>>

\* loop body: the URL is banned, continue
SkipBanned ==
  /\ pc = "loop"
  /\ rank <= Len(results)
  /\ results[rank] \in BannedUrls
  /\ rank' = rank + 1
  /\ UNCHANGED <<pc, max_results, penalty, qi, results, entries,
                 query_results, aggregated, hashseed, prev, runs, failed,
                 searchFailed, pending>>

\* FetchFails as it would be if the failure left the loop (break)
FetchFailsAborts ==
  /\ pc = "loop"
  /\ rank <= Len(results)
  /\ results[rank] \notin BannedUrls
  /\ failed' = failed \cup {rank}
  /\ rank' = Len(results) + 1
  /\ UNCHANGED <<pc, max_results, penalty, qi, results, entries,
                 query_results, aggregated, hashseed, prev, runs,
                 searchFailed, pending>>

\* loop body: session.get or raise_for_status raises, continue
FetchFails ==
  /\ pc = "loop"
  /\ rank <= Len(results)
  /\ results[rank] \notin BannedUrls
  /\ failed' = failed \cup {rank}
  /\ rank' = rank + 1
  /\ UNCHANGED <<pc, max_results, penalty, qi, results, entries,
                 query_results, aggregated, hashseed, prev, runs,
                 searchFailed, pending>>

\* loop body: the page is fetched but has no title or the title does not
\* look like an agent, continue
SkipTitle ==
  /\ pc = "loop"
  /\ rank <= Len(results)
  /\ results[rank] \notin BannedUrls
  /\ results[rank] \notin AgentUrls
  /\ rank' = rank + 1
  /\ UNCHANGED <<pc, max_results, penalty, qi, results, entries,
                 query_results, aggregated, hashseed, prev, runs, failed,
                 searchFailed, pending>>

\* StoreEntry as it would be if enumerate counted from 0
StoreEntryZeroBased ==
  /\ pc = "loop"
  /\ rank <= Len(results)
  /\ results[rank] \notin BannedUrls
  /\ results[rank] \in AgentUrls
  /\ entries' = Upsert(entries, PageTitle[results[rank]], results[rank], rank - 1)
  /\ rank' = rank + 1
  /\ UNCHANGED <<pc, max_results, penalty, qi, results, query_results,
                 aggregated, hashseed, prev, runs, failed, searchFailed,
                 pending>>

\* loop body: the page is fetched and classified, its entry is upserted
StoreEntry ==
  /\ pc = "loop"
  /\ rank <= Len(results)
  /\ results[rank] \notin BannedUrls
  /\ results[rank] \in AgentUrls
  /\ entries' = Upsert(entries, PageTitle[results[rank]], results[rank], rank)
  /\ rank' = rank + 1
  /\ UNCHANGED <<pc, max_results, penalty, qi, results, query_results,
                 aggregated, hashseed, prev, runs, failed, searchFailed,
                 pending>>

\* the loop is exhausted: return entries, main appends it to query_results
\* and moves to the next query
ReturnEntries ==
  /\ pc = "loop"
  /\ rank > Len(results)
  /\ query_results' = Append(query_results, entries)
  /\ qi' = qi + 1
  /\ pc' = IF qi = NumQueries THEN "aggregate" ELSE "search"
  /\ results' = <<>>
  /\ rank' = 1
  /\ entries' = EmptyMap
  /\ failed' = {}
  /\ UNCHANGED <<max_results, penalty, aggregated, hashseed, prev, runs,
                 searchFailed, pending>>

\* main: aggregated = aggregate_entries(query_results, penalty)
Aggregate ==
  /\ pc = "aggregate"
  /\ aggregated' = aggregate_entries(query_results, penalty, hashseed)
  /\ runs' = runs + 1
  /\ pc' = "done"
  /\ UNCHANGED <<max_results, penalty, qi, results, rank, entries,
                 query_results, hashseed, prev, failed, searchFailed, pending>>

Next ==
  \/ ParseArgs
  \/ SearchOk
  \/ SearchFails
  \/ SkipBanned
  \/ FetchFails
  \/ SkipTitle
  \/ StoreEntry
  \/ ReturnEntries
  \/ Aggregate

Spec == Init /\ [][Next]_vars

(* ---------------- aggregate_entries on arbitrary inputs ---------------- *)
\* the entries a per-query map can hold under a key: a page of the web with
\* that normalized title, at any rank
EntryChoices(key) ==
  {AgentEntry(PageTitle[u], u, r) :
     u \in {v \in AgentUrls \ BannedUrls : Lower(PageTitle[v]) = key},
     r \in 1..MaxRank}

PerQueryMaps ==
  UNION {{m \in [D -> UNION {EntryChoices(k) : k \in D}] :
            \A k \in D : m[k] \in EntryChoices(k)} : D \in SUBSET KeyUniverse}

InitAgg ==
  /\ pc = "agg"
  /\ \E n \in 0..MaxQueries : query_results \in [1..n -> PerQueryMaps]
  /\ penalty \in 1..(MaxRank + 1)
  /\ hashseed \in HashSeeds
  /\ max_results = 0
  /\ qi = 1
  /\ results = <<>>
  /\ rank = 1
  /\ entries = EmptyMap
  /\ aggregated = <<>>
  /\ prev = <<>>
  /\ runs = 0
  /\ failed = {}
  /\ searchFailed = {}
  /\ pending = {}

\* aggregate_entries(query_results, penalty) is called (again)
CallAggregate ==
  /\ pc = "agg"
  /\ runs < MaxRuns
  /\ prev' = aggregated
  /\ aggregated' = aggregate_entries(query_results, penalty, hashseed)
  /\ runs' = runs + 1
  /\ UNCHANGED <<pc, max_results, penalty, qi, results, rank, entries,
                 query_results, hashseed, failed, searchFailed, pending>>

\* the next call happens in a new interpreter process, whose string hashes
\* induce another enumeration of the keys
NewProcess ==
  /\ pc = "agg"
  /\ runs >= 1
  /\ runs < MaxRuns
  /\ \E s \in HashSeeds \ {hashseed} : hashseed' = s
  /\ UNCHANGED <<pc, max_results, penalty, qi, results, rank, entries,
                 query_results, aggregated, prev, runs, failed, searchFailed,
                 pending>>

NextAgg ==
  \/ CallAggregate
  \/ NewProcess

SpecAgg == InitAgg /\ [][NextAgg]_vars

(* ---------------- the upserts of one query in any order ---------------- *)
\* the positions of a result sequence whose page reaches the upsert
UpsertPositions(res, fl) ==
  {i \in 1..Len(res) : /\ i \notin fl
                       /\ res[i] \notin BannedUrls
                       /\ res[i] \in AgentUrls}

InitMerge ==
  /\ pc = "merge"
  /\ results \in SearchResults(MaxUpserts)
  /\ pending = UpsertPositions(results, {})
  /\ entries = EmptyMap
  /\ max_results = MaxUpserts
  /\ penalty = PenaltyOf(MaxUpserts)
  /\ qi = 1
  /\ rank = 1
  /\ query_results = <<>>
  /\ aggregated = <<>>
  /\ hashseed \in HashSeeds
  /\ prev = <<>>
  /\ runs = 0
  /\ failed = {}
  /\ searchFailed = {}

\* one upsert, applied atomically, whichever fetch completes next
ApplyUpsert ==
  /\ pc = "merge"
  /\ \E i \in pending :
       /\ entries' = Upsert(entries, PageTitle[results[i]], results[i], i)
       /\ pending' = pending \ {i}
  /\ UNCHANGED <<pc, max_results, penalty, qi, results, rank, query_results,
                 aggregated, hashseed, prev, runs, failed, searchFailed>>

NextMerge == ApplyUpsert

SpecMerge == InitMerge /\ [][NextMerge]_vars

\* the map fetch_agents_for_query builds when it upserts the positions
\* 1..n of res in search-rank order
RECURSIVE FetchInOrder(_, _)
FetchInOrder(res, n) ==
  IF n = 0 THEN EmptyMap
  ELSE IF n \in UpsertPositions(res, {})
       THEN Upsert(FetchInOrder(res, n - 1), PageTitle[res[n]], res[n], n)
       ELSE FetchInOrder(res, n - 1)

(* ---------------- reference definitions of the properties ---------------- *)
MinOf(S) == CHOOSE x \in S : \A y \in S : x <= y

MaxOf(S) == CHOOSE x \in S : \A y \in S : x >= y

\* the queries of the list whose map holds the key
QueriesWith(qrs, key) == {q \in 1..Len(qrs) : key \in DOMAIN qrs[q]}

\* the ranks stored for the key, over the queries where it appears
StoredRanks(qrs, key) == {qrs[q][key].rank : q \in QueriesWith(qrs, key)}

\* the sum of the ranks stored for the key in the queries 1..n
RECURSIVE StoredSum(_, _, _)
StoredSum(qrs, key, n) ==
  IF n = 0 THEN 0
  ELSE StoredSum(qrs, key, n - 1)
       + (IF key \in DOMAIN qrs[n] THEN qrs[n][key].rank ELSE 0)

\* the entries of the last result that stand for the key
EntriesFor(key) == {i \in 1..Len(aggregated) : Lower(aggregated[i].name) = key}

\* the per-query values of a key: its stored ranks, and the penalty when
\* some query lacks it
ValuesOf(qrs, pen, key) ==
  StoredRanks(qrs, key)
    \cup (IF QueriesWith(qrs, key) # 1..Len(qrs) THEN {pen} ELSE {})

\* the map a query must return, stated from the result sequence and the
\* set of positions whose fetch failed: one entry per normalized title of the
\* surviving pages, taken from the first surviving page of that title
ExpectedEntries(res, fl) ==
  LET good == UpsertPositions(res, fl)
      keys == {Lower(PageTitle[res[i]]) : i \in good}
      first(k) == MinOf({i \in good : Lower(PageTitle[res[i]]) = k})
  IN  [k \in keys |-> AgentEntry(PageTitle[res[first(k)]], res[first(k)], first(k))]

\* the positions already processed by the loop that reached the upsert
\* with the given normalized title
SeenWith(key) ==
  {i \in UpsertPositions(results, failed) :
     i < rank /\ Lower(PageTitle[results[i]]) = key}

(* ---------------- C1 ---------------- *)
\* C1: every entry aggregate_entries returns for a normalized name k has
\* total_score = (sum of the ranks stored for k) + penalty * (number of
\* queries whose map lacks k), and every key of the union has one entry.
C1_TotalScore ==
  runs >= 1 =>
    /\ \A k \in AllKeys(query_results) : Cardinality(EntriesFor(k)) = 1
    /\ \A i \in 1..Len(aggregated) :
         LET k == Lower(aggregated[i].name)
         IN  /\ k \in AllKeys(query_results)
             /\ aggregated[i].total_score =
                  StoredSum(query_results, k, Len(query_results))
                  + penalty * (Len(query_results)
                               - Cardinality(QueriesWith(query_results, k)))

\* a name present in one query and absent from another has been scored
C1_Witness ==
  /\ pc = "agg"
  /\ runs >= 1
  /\ Len(query_results) = 2
  /\ penalty = 3
  /\ \E i \in 1..Len(aggregated) :
       /\ Cardinality(QueriesWith(query_results, Lower(aggregated[i].name))) = 1
       /\ aggregated[i].total_score = 5

(* ---------------- C2 ---------------- *)
\* C2: once the arguments are parsed, every rank stored in the map being
\* built or in a finished per-query map lies in 1..max_results, and
\* max_results < penalty: absence always costs more than an appearance.
C2_RankBelowPenalty ==
  pc \in {"search", "loop", "aggregate", "done"} =>
    /\ max_results < penalty
    /\ \A k \in DOMAIN entries :
         1 <= entries[k].rank /\ entries[k].rank <= max_results
    /\ \A q \in 1..Len(query_results) : \A k \in DOMAIN query_results[q] :
         /\ 1 <= query_results[q][k].rank
         /\ query_results[q][k].rank <= max_results
         /\ query_results[q][k].rank < penalty

\* a run that stored the worst possible rank, max_results
C2_Witness ==
  /\ pc = "done"
  /\ max_results >= 2
  /\ \E q \in 1..Len(query_results) : \E k \in DOMAIN query_results[q] :
       query_results[q][k].rank = max_results

(* ---------------- C3 ---------------- *)
\* C3: the list returned by aggregate_entries is ascending in total_score.
C3_SortedAscending ==
  runs >= 1 =>
    \A i, j \in 1..Len(aggregated) :
      i < j => aggregated[i].total_score <= aggregated[j].total_score

\* two names of different scores whose lower score was visited second
C3_Witness ==
  /\ pc = "agg"
  /\ runs >= 1
  /\ Len(aggregated) = 2
  /\ aggregated[1].total_score < aggregated[2].total_score
  /\ Lower(aggregated[1].name) = hashseed[2]

(* ---------------- C4 ---------------- *)
\* C4: running aggregate_entries again on the same maps and penalty
\* returns the identical ordered list, ties included.
C4_SameListOnRerun ==
  runs >= 2 => aggregated = prev

(* ---------------- C5 ---------------- *)
\* C5: the map of a query holds at most one entry per normalized title; the
\* entry's rank is the least rank among the pages of that title that reached
\* the upsert, its name and url are those of the first such page.
C5_DedupMinRank ==
  pc = "loop" =>
    /\ \A k1, k2 \in DOMAIN entries :
         Lower(entries[k1].name) = Lower(entries[k2].name) => k1 = k2
    /\ \A k \in DOMAIN entries :
         /\ SeenWith(k) # {}
         /\ entries[k].rank = MinOf(SeenWith(k))
         /\ entries[k].name = PageTitle[results[MinOf(SeenWith(k))]]
         /\ entries[k].url = results[MinOf(SeenWith(k))]

\* two pages of one query share a normalized title but differ in title and
\* URL, and both have been upserted
C5_Witness ==
  /\ pc = "loop"
  /\ \E k \in DOMAIN entries : \E i, j \in SeenWith(k) :
       /\ i < j
       /\ results[i] # results[j]
       /\ PageTitle[results[i]] # PageTitle[results[j]]

(* ---------------- C6 ---------------- *)
\* C6: the rank stored for a page is its 1-based position in the sequence
\* returned by the search provider, whatever was skipped before it.
C6_RankIsRawPosition ==
  pc = "loop" =>
    \A k \in DOMAIN entries :
      /\ entries[k].rank \in 1..Len(results)
      /\ results[entries[k].rank] = entries[k].url
      /\ entries[k].rank \in UpsertPositions(results, failed)

\* an entry stored at rank 2 behind a URL that was skipped: banned, failed
\* to fetch, or without an agent-like title
C6_Witness ==
  /\ pc = "loop"
  /\ Len(results) = 2
  /\ 1 \notin UpsertPositions(results, failed)
  /\ \E k \in DOMAIN entries : entries[k].rank = 2

(* ---------------- C7 ---------------- *)
\* C7: when the loop of a query ends, the map holds exactly the entries of
\* the pages whose fetch did not fail, at their original ranks; a query whose
\* search failed contributes an empty map; and the run ends with one map per
\* query and one aggregated entry per name.
C7_FailuresContained ==
  /\ (pc = "loop" /\ rank > Len(results)) =>
        entries = ExpectedEntries(results, failed)
  /\ \A q \in searchFailed :
        q <= Len(query_results) => query_results[q] = EmptyMap
  /\ pc \in {"aggregate", "done"} => Len(query_results) = NumQueries
  /\ pc = "done" =>
        Len(aggregated) = Cardinality(AllKeys(query_results))

\* after a query whose search failed, a query ends with an entry stored
\* behind a failed fetch
C7_Witness ==
  /\ pc = "loop"
  /\ rank > Len(results)
  /\ searchFailed # {}
  /\ \E k \in DOMAIN entries : \E i \in failed : i < entries[k].rank

(* ---------------- C8 ---------------- *)
\* C8: the name and url of an aggregated entry are those of a per-query
\* entry whose rank is the least rank stored for that name, and that rank is
\* best_rank when every stored rank is below the penalty.
C8_Representative ==
  runs >= 1 =>
    \A i \in 1..Len(aggregated) :
      LET k == Lower(aggregated[i].name)
          least == MinOf(StoredRanks(query_results, k))
      IN  /\ \E q \in QueriesWith(query_results, k) :
               /\ query_results[q][k].rank = least
               /\ query_results[q][k].name = aggregated[i].name
               /\ query_results[q][k].url = aggregated[i].url
          /\ (\A r \in StoredRanks(query_results, k) : r < penalty)
               => aggregated[i].best_rank = least

\* a name stored under two different pages, the better rank in the later
\* query
C8_Witness ==
  /\ pc = "agg"
  /\ runs >= 1
  /\ Len(query_results) = 2
  /\ \E k \in DOMAIN query_results[1] \cap DOMAIN query_results[2] :
       /\ query_results[2][k].rank < query_results[1][k].rank
       /\ query_results[2][k].url # query_results[1][k].url
       /\ \E i \in EntriesFor(k) : aggregated[i].url = query_results[2][k].url

(* ---------------- C9 ---------------- *)
\* C9: applying the upserts of one query in any order yields the same map
\* (keys, ranks, names and urls) as applying them in search-rank order.
C9_OrderIndependent ==
  (pc = "merge" /\ pending = {}) =>
    entries = FetchInOrder(results, Len(results))

\* C9 as amended: in any order the upserts yield the same keys and the same
\* rank under each key as in search-rank order; the name and url under a key
\* are those of one of the upserted pages of that normalized title.
C9_KeysAndRanksOrderIndependent ==
  (pc = "merge" /\ pending = {}) =>
    LET ref == FetchInOrder(results, Len(results))
    IN  /\ DOMAIN entries = DOMAIN ref
        /\ \A k \in DOMAIN entries :
             /\ entries[k].rank = ref[k].rank
             /\ \E i \in UpsertPositions(results, {}) :
                  /\ Lower(PageTitle[results[i]]) = k
                  /\ entries[k].name = PageTitle[results[i]]
                  /\ entries[k].url = results[i]

\* all upserts applied, the later-ranked page of a title first
C9_Witness ==
  /\ pc = "merge"
  /\ pending = {}
  /\ \E k \in DOMAIN entries :
       /\ entries[k].rank < Len(results)
       /\ entries[k].url # results[entries[k].rank]

(* ---------------- C10 ---------------- *)
\* C10: best_rank and worst_rank are the least and the greatest of the
\* per-query values of the name (stored ranks, and the penalty when a query
\* lacks it); worst_rank is the penalty when a query lacks the name and no
\* stored rank exceeds the penalty.
C10_BestWorst ==
  runs >= 1 =>
    \A i \in 1..Len(aggregated) :
      LET k == Lower(aggregated[i].name)
          vals == ValuesOf(query_results, penalty, k)
      IN  /\ aggregated[i].best_rank = MinOf(vals)
          /\ aggregated[i].worst_rank = MaxOf(vals)
          /\ ( /\ QueriesWith(query_results, k) # 1..Len(query_results)
               /\ \A r \in StoredRanks(query_results, k) : r <= penalty )
               => aggregated[i].worst_rank = penalty

\* a name missing from one query: worst_rank is the penalty, best_rank a
\* stored rank
C10_Witness ==
  /\ pc = "agg"
  /\ runs >= 1
  /\ \E i \in 1..Len(aggregated) :
       /\ Cardinality(QueriesWith(query_results, Lower(aggregated[i].name)))
            < Len(query_results)
       /\ aggregated[i].worst_rank = penalty
       /\ aggregated[i].best_rank < penalty
====
